---- MODULE Spec2Model ----
(***************************************************************************)
(* pipefunc (src/src/main.ts): forward pipelines, reverse pipelines and    *)
(* value pipes.  Every closure the library returns is an object of `objs`; *)
(* every stage array a builder closure captures is an element of `arrays`. *)
(* `origin` records, for each closure, the client call that produced it,   *)
(* and `last` describes the most recent client call: what it was given,    *)
(* what it returned or threw, and which stage functions it invoked.        *)
(***************************************************************************)
EXTENDS Integers, Sequences, FiniteSets

VARIABLES arrays, objs, origin, last

vars == <<arrays, objs, origin, last>>

\* ------------------------------------------------------------- bounds
\* Most closures the client creates in one run.
MaxObjs == 4
\* Most stages of the two pipelines compared with each other.
MaxStages == 3

\* ------------------------------------------------------------- values
\* JavaScript values the stage functions see: numbers, undefined, NaN.
Num(n) == [t |-> "num", n |-> n]
Undefined == [t |-> "undefined", n |-> 0]
NaN == [t |-> "NaN", n |-> 0]

IsNum(v) == v.t = "num"

\* No argument given to a builder or pipe call (func is undefined or null).
NoFunc == "none"

\* The stage functions the client supplies:
\*   inc        = (x) => x + 1
\*   dbl        = (x) => x * 2
\*   add        = (x, y) => x + y
\*   boom       = (x) => { throw x }
\*   someNumber = () => 42
Funcs == {"inc", "dbl", "add", "boom", "someNumber"}

\* Function.prototype.length: the declared parameter count.
length(f) ==
  CASE f = "add" -> 2
    [] f = "someNumber" -> 0
    [] OTHER -> 1

\* The i-th argument of a call; a missing argument reads as undefined.
Arg(args, i) == IF i <= Len(args) THEN args[i] ELSE Undefined

\* func(...args): whether the call throws, and the value returned or thrown.
Invoke(f, args) ==
  LET x == Arg(args, 1)
      y == Arg(args, 2)
  IN CASE f = "inc" ->
            [thrown |-> FALSE, value |-> IF IsNum(x) THEN Num(x.n + 1) ELSE NaN]
       [] f = "dbl" ->
            [thrown |-> FALSE, value |-> IF IsNum(x) THEN Num(x.n * 2) ELSE NaN]
       [] f = "add" ->
            [thrown |-> FALSE,
             value |-> IF IsNum(x) /\ IsNum(y) THEN Num(x.n + y.n) ELSE NaN]
       [] f = "boom" -> [thrown |-> TRUE, value |-> x]
       [] OTHER -> [thrown |-> FALSE, value |-> Num(42)]

\* The values the client wraps in a pipe, and the argument lists it gives
\* to a finalized function: none, one or two arguments.
InputValues == {Num(1), Num(2)}

ArgLists ==
  {<<>>, <<Num(1)>>, <<Num(2)>>, <<Num(1), Num(2)>>, <<Num(2), Num(1)>>}

\* ------------------------------------------------------------- closures
Closure(kind, pipeline, value) ==
  [kind |-> kind, pipeline |-> pipeline, value |-> value]

\* The heap h: the stage arrays and the closures allocated so far.
HeapOf(arr, obs) == [arrays |-> arr, objs |-> obs]

EmptyHeap == HeapOf(<<>>, <<>>)

\* The outcome of one call: the heap after it, the closure it returned (0
\* when it returned a plain value or threw), the value returned or thrown,
\* and the stage invocations it made, in order.
Outcome(arr, obs, ret, thrown, value, calls) ==
  [arrays |-> arr, objs |-> obs, ret |-> ret, thrown |-> thrown,
   value |-> value, calls |-> calls]

\* A call that allocates closure c and returns it, invoking nothing.
Returns(h, arr, c) ==
  Outcome(arr, Append(h.objs, c), Len(h.objs) + 1, FALSE, Undefined, <<>>)

\* The contents of a stage array; reference 0 is the default parameter [].
Contents(h, ref) == IF ref = 0 THEN <<>> ELSE h.arrays[ref]

\* makeExec running the pipeline once, with no argument, while finalizing.
makeExec_eager(h, pipeline) ==
  [Returns(h, h.arrays, Closure("exec", pipeline, Undefined))
     EXCEPT !.calls = <<[fn |-> h.arrays[pipeline][1], args |-> <<>>]>>]

\* makeExec(pipeline): the executor closure captures the array it is given.
makeExec(h, pipeline) ==
  Returns(h, h.arrays, Closure("exec", pipeline, Undefined))

\* pipeline.reduce((args, func) => [func(...args)], args)[0], from stage i on.
RECURSIVE reduce(_, _, _, _)
reduce(pl, i, args, calls) ==
  IF i > Len(pl)
  THEN [thrown |-> FALSE, value |-> Arg(args, 1), calls |-> calls]
  ELSE LET r == Invoke(pl[i], args)
           c == Append(calls, [fn |-> pl[i], args |-> args])
       IN IF r.thrown
          THEN [thrown |-> TRUE, value |-> r.value, calls |-> c]
          ELSE reduce(pl, i + 1, <<r.value>>, c)

\* The function makeExec returns, called with args.
exec(h, pipeline, args) ==
  LET r == reduce(h.arrays[pipeline], 1, args, <<>>)
  IN Outcome(h.arrays, h.objs, 0, r.thrown, r.value, r.calls)

\* pipelineBuilder with the new function put first: [func, ...previous].
pipelineBuilder_prepend(h, func, previous) ==
  Returns(h, Append(h.arrays, <<func>> \o Contents(h, previous)),
          Closure("fwd", Len(h.arrays) + 1, Undefined))

\* pipelineBuilder pushing onto the array it was given: previous.push(func).
pipelineBuilder_push(h, func, previous) ==
  IF previous = 0
  THEN Returns(h, Append(h.arrays, <<func>>),
               Closure("fwd", Len(h.arrays) + 1, Undefined))
  ELSE Returns(h, [h.arrays EXCEPT ![previous] = Append(@, func)],
               Closure("fwd", previous, Undefined))

\* pipelineBuilder(func, previous): const pipeline = [...previous, func].
pipelineBuilder(h, func, previous) ==
  Returns(h, Append(h.arrays, Contents(h, previous) \o <<func>>),
          Closure("fwd", Len(h.arrays) + 1, Undefined))

\* The closure pipelineBuilder returns, called with func (or with nothing).
pipelineBuilderCall(h, pipeline, func) ==
  IF func # NoFunc
  THEN pipelineBuilder(h, func, pipeline)
  ELSE makeExec(h, pipeline)

\* reversePipelineBuilder with the new function put last: [...next, func].
reversePipelineBuilder_append(h, func, next) ==
  Returns(h, Append(h.arrays, Contents(h, next) \o <<func>>),
          Closure("rev", Len(h.arrays) + 1, Undefined))

\* reversePipelineBuilder without the spread of next: [func].
reversePipelineBuilder_forgets(h, func, next) ==
  Returns(h, Append(h.arrays, <<func>>),
          Closure("rev", Len(h.arrays) + 1, Undefined))

\* reversePipelineBuilder(func, next): const pipeline = [func, ...next].
reversePipelineBuilder(h, func, next) ==
  Returns(h, Append(h.arrays, <<func>> \o Contents(h, next)),
          Closure("rev", Len(h.arrays) + 1, Undefined))

\* () => makeExec(pipeline), returned for a function with more than one
\* parameter: the closure captures the enclosing builder's array.
terminalBuilder(h, pipeline) ==
  Returns(h, h.arrays, Closure("term", pipeline, Undefined))

\* A reverse builder taking only functions of exactly one parameter as
\* stages: func.length !== 1 ends the chain.
reversePipelineBuilderCall_exactlyOne(h, pipeline, func) ==
  IF func # NoFunc
  THEN IF length(func) # 1
       THEN terminalBuilder(h, pipeline)
       ELSE reversePipelineBuilder(h, func, pipeline)
  ELSE makeExec(h, pipeline)

\* The closure reversePipelineBuilder returns, called with func (or nothing).
reversePipelineBuilderCall(h, pipeline, func) ==
  IF func # NoFunc
  THEN IF length(func) > 1
       THEN terminalBuilder(h, pipeline)
       ELSE reversePipelineBuilder(h, func, pipeline)
  ELSE makeExec(h, pipeline)

\* A terminal builder that still takes a function, as a reverse builder does.
terminalBuilderCall_extends(h, pipeline, func) ==
  reversePipelineBuilderCall(h, pipeline, func)

\* The terminal builder, called: it declares no parameter and ignores any.
terminalBuilderCall(h, pipeline, func) == makeExec(h, pipeline)

\* pipe keeping the value in one cell that every wrapper reads.
pipe_shared(h, value) ==
  [Returns(h, h.arrays, Closure("pipe", 0, value))
     EXCEPT !.objs =
       Append([o \in 1..Len(h.objs) |->
                 IF h.objs[o].kind = "pipe"
                 THEN Closure("pipe", 0, value) ELSE h.objs[o]],
              Closure("pipe", 0, value))]

\* pipe(value): the closure captures the value.
pipe(h, value) == Returns(h, h.arrays, Closure("pipe", 0, value))

\* A pipe that puts off the function instead of calling it at once.
pipeCall_lazy(h, value, func) ==
  IF func = NoFunc
  THEN Outcome(h.arrays, h.objs, 0, FALSE, value, <<>>)
  ELSE pipe(h, value)

\* A pipe that calls the function but goes on wrapping the old value.
pipeCall_keepsOld(h, value, func) ==
  IF func = NoFunc
  THEN Outcome(h.arrays, h.objs, 0, FALSE, value, <<>>)
  ELSE LET r == Invoke(func, <<value>>)
           c == <<[fn |-> func, args |-> <<value>>]>>
       IN IF r.thrown
          THEN Outcome(h.arrays, h.objs, 0, TRUE, r.value, c)
          ELSE [pipe(h, value) EXCEPT !.calls = c]

\* The closure pipe returns, called with func (or with nothing).
pipeCall(h, value, func) ==
  IF func = NoFunc
  THEN Outcome(h.arrays, h.objs, 0, FALSE, value, <<>>)
  ELSE LET r == Invoke(func, <<value>>)
           c == <<[fn |-> func, args |-> <<value>>]>>
       IN IF r.thrown
          THEN Outcome(h.arrays, h.objs, 0, TRUE, r.value, c)
          ELSE [pipe(h, r.value) EXCEPT !.calls = c]

\* ------------------------------------------------------------- actions
Call(op, target, fn, args) ==
  [op |-> op, target |-> target, fn |-> fn, args |-> args]

Heap == HeapOf(arrays, objs)

\* One client call with outcome o: the heap becomes o's heap, a returned
\* closure gets the call as its origin, and `last` records the call and
\* what came of it.
Step(call, o) ==
  /\ arrays' = o.arrays
  /\ objs' = o.objs
  /\ origin' = IF o.ret # 0
               THEN Append(origin, call)
               ELSE origin
  /\ last' = [op |-> call.op, target |-> call.target, fn |-> call.fn,
              args |-> call.args, ret |-> o.ret, thrown |-> o.thrown,
              value |-> o.value, calls |-> o.calls]

\* A run follows the descendants of one start call: chains started
\* separately share no closure and no array.
CanStart == objs = <<>>

CanAllocate == Len(objs) < MaxObjs

OfKind(kind) == {i \in 1..Len(objs) : objs[i].kind = kind}

\* pipeline(func)
Pipeline ==
  /\ CanStart
  /\ \E func \in Funcs :
       Step(Call("pipeline", 0, func, <<>>), pipelineBuilder(Heap, func, 0))

\* reversePipeline(func)
ReversePipeline ==
  /\ CanStart
  /\ \E func \in Funcs :
       Step(Call("reversePipeline", 0, func, <<>>),
            reversePipelineBuilder(Heap, func, 0))

\* pipe(value)
Pipe ==
  /\ CanStart
  /\ \E v \in InputValues :
       Step(Call("pipe", 0, NoFunc, <<v>>), pipe(Heap, v))

\* builder(func) or builder(), on a forward builder
CallPipelineBuilder ==
  /\ CanAllocate
  /\ \E b \in OfKind("fwd"), func \in Funcs \cup {NoFunc} :
       Step(Call("fwd()", b, func, <<>>),
            pipelineBuilderCall(Heap, objs[b].pipeline, func))

\* builder(func) or builder(), on a reverse builder
CallReversePipelineBuilder ==
  /\ CanAllocate
  /\ \E b \in OfKind("rev"), func \in Funcs \cup {NoFunc} :
       Step(Call("rev()", b, func, <<>>),
            reversePipelineBuilderCall(Heap, objs[b].pipeline, func))

\* builder(func) or builder(), on a terminal builder
CallTerminalBuilder ==
  /\ CanAllocate
  /\ \E b \in OfKind("term"), func \in Funcs \cup {NoFunc} :
       Step(Call("term()", b, func, <<>>),
            terminalBuilderCall(Heap, objs[b].pipeline, func))

\* finalized(...args)
CallExec ==
  \E e \in OfKind("exec"), args \in ArgLists :
    Step(Call("exec()", e, NoFunc, args), exec(Heap, objs[e].pipeline, args))

\* p(func) or p(), on a value pipe
CallPipe ==
  \E p \in OfKind("pipe"), func \in Funcs \cup {NoFunc} :
    /\ func # NoFunc => CanAllocate
    /\ Step(Call("pipe()", p, func, <<>>), pipeCall(Heap, objs[p].value, func))

Init ==
  /\ arrays = <<>>
  /\ objs = <<>>
  /\ origin = <<>>
  /\ last = [op |-> "none", target |-> 0, fn |-> NoFunc, args |-> <<>>,
             ret |-> 0, thrown |-> FALSE, value |-> Undefined, calls |-> <<>>]

Next ==
  \/ Pipeline
  \/ ReversePipeline
  \/ Pipe
  \/ CallPipelineBuilder
  \/ CallReversePipelineBuilder
  \/ CallTerminalBuilder
  \/ CallExec
  \/ CallPipe

Spec == Init /\ [][Next]_vars

\* ------------------------------------------------- what the client asked for
\* The closure a start call returned, of which o descends.
RECURSIVE Root(_)
Root(o) == IF origin[o].target = 0 THEN o ELSE Root(origin[o].target)

Family(o) == objs[Root(o)].kind

\* The stages the client supplied on the way to closure o, in the order the
\* documentation says they execute: a forward builder runs a new function
\* after the others, a reverse builder before the others; a call without a
\* function, and any call on a terminal builder, adds none.
RECURSIVE Chain(_)
Chain(o) ==
  LET c == origin[o]
  IN IF c.target = 0 THEN <<c.fn>>
     ELSE IF c.fn = NoFunc \/ objs[c.target].kind = "term" THEN Chain(c.target)
     ELSE IF objs[c.target].kind = "fwd" THEN Chain(c.target) \o <<c.fn>>
     ELSE <<c.fn>> \o Chain(c.target)

\* chain[n](...chain[2](chain[1](...args))...), evaluated from the outside in;
\* a throwing stage makes the whole expression throw.
RECURSIVE Nested(_, _, _)
Nested(chain, n, args) ==
  IF n = 1 THEN Invoke(chain[1], args)
  ELSE LET inner == Nested(chain, n - 1, args)
       IN IF inner.thrown THEN inner ELSE Invoke(chain[n], <<inner.value>>)

Composed(chain, args) == Nested(chain, Len(chain), args)

SameResult(r) == last.thrown = r.thrown /\ last.value = r.value

ExecCalled == last.op = "exec()"

\* The stage list a builder or finalized function holds.
Stages(o) == arrays[objs[o].pipeline]

\* ------------------------------------------------------------- claims

\* C1: the function finalized from pipeline(f)(g1)...(gn)(), applied to the
\* argument list a, returns gn(...g1(f(...a))...); with n = 0 it is f(...a).
C1_ForwardComposition ==
  (ExecCalled /\ Family(last.target) = "fwd")
    => SameResult(Composed(Chain(last.target), last.args))

C1_Witness ==
  /\ ExecCalled
  /\ Family(last.target) = "fwd"
  /\ Chain(last.target) = <<"add", "inc", "dbl">>
  /\ last.args = <<Num(1), Num(2)>>
  /\ last.value = Num(8)

\* C2: the function finalized from reversePipeline(a)(b1)...(bn)(), all of
\* them single-input functions, returns a(b1(...bn(x)...)): the function
\* added last runs first, the one given to reversePipeline runs last.
C2_ReverseComposition ==
  (/\ ExecCalled
   /\ Family(last.target) = "rev"
   /\ \A i \in 1..Len(Chain(last.target)) : length(Chain(last.target)[i]) <= 1)
    => SameResult(Composed(Chain(last.target), last.args))

C2_Witness ==
  /\ ExecCalled
  /\ Family(last.target) = "rev"
  /\ origin[Root(last.target)].fn = "dbl"
  /\ Chain(last.target) = <<"inc", "inc", "dbl">>
  /\ last.args = <<Num(1)>>
  /\ last.value = Num(6)

\* C3: a function m with more than one input, given to a reverse builder
\* holding s1..sk, becomes the first stage: the function finalized from the
\* returned terminal builder, applied to y1..yn, calls m(y1..yn) and returns
\* sk(...s1(m(y1..yn))...).
C3_MultiFunctionRunsFirst ==
  (/\ ExecCalled
   /\ objs[origin[last.target].target].kind = "term")
    => /\ SameResult(Composed(Chain(last.target), last.args))
       /\ last.calls # <<>>
       /\ last.calls[1] = [fn |-> Chain(last.target)[1], args |-> last.args]

\* C4: a terminal builder takes no further stage: whatever it is called
\* with, it returns a finalized function holding the terminal builder's own
\* stages, never a builder and never a longer chain.
C4_TerminalOnlyFinalizes ==
  \A o \in 1..Len(objs) :
    (origin[o].target # 0 /\ objs[origin[o].target].kind = "term")
      => /\ objs[o].kind = "exec"
         /\ Stages(o) = Stages(origin[o].target)

C4_Witness ==
  /\ last.op = "term()"
  /\ last.fn = "inc"
  /\ last.ret = Len(objs)
  /\ objs[last.ret].kind = "exec"

\* C5: starting a builder, adding a stage and finalizing invoke no stage
\* function, in the forward and in the reverse pipeline; only a call of the
\* finalized function does.
C5_BuildingInvokesNothing ==
  /\ last.op \in {"pipeline", "reversePipeline", "fwd()", "rev()", "term()"}
       => last.calls = <<>>
  /\ last.calls # <<>> => last.op \in {"exec()", "pipe()"}

C5_Witness ==
  /\ last.op = "rev()"
  /\ last.fn = NoFunc
  /\ objs[last.ret].kind = "exec"
  /\ Len(Stages(last.ret)) = 2

\* The i-th stage invocation of the last call got the value the one before
\* it returned as its only argument (the first got the call's arguments).
FedByPrevious(i) ==
  last.calls[i].args =
    IF i = 1 THEN last.args
    ELSE <<Invoke(last.calls[i - 1].fn, last.calls[i - 1].args).value>>

\* C6: one call of a finalized function, forward or reverse, invokes every
\* stage of the chain exactly once, in execution order; the first stage gets
\* the complete argument list, every later stage the one value returned by
\* the stage before it.  (Stated for calls in which no stage throws.)
C6_EveryStageOnceInOrder ==
  (ExecCalled /\ ~last.thrown)
    => /\ Len(last.calls) = Len(Chain(last.target))
       /\ \A i \in 1..Len(last.calls) :
            /\ last.calls[i].fn = Chain(last.target)[i]
            /\ FedByPrevious(i)

\* What does hold of every call of a finalized function: it invokes the
\* stages of the array its executor captured, each once and in order, up to
\* and including the first one that throws.
ExecRunsHeldStages ==
  ExecCalled
    => /\ Len(last.calls) <= Len(Stages(last.target))
       /\ ~last.thrown => Len(last.calls) = Len(Stages(last.target))
       /\ \A i \in 1..Len(last.calls) :
            /\ last.calls[i].fn = Stages(last.target)[i]
            /\ FedByPrevious(i)

\* The value a pipe should wrap: the client's value for pipe(v), and
\* f(wrapped value of p) for the pipe p(f) returned.
RECURSIVE Piped(_)
Piped(p) ==
  IF origin[p].target = 0 THEN origin[p].args[1]
  ELSE Invoke(origin[p].fn, <<Piped(origin[p].target)>>).value

PipeApplied == last.op = "pipe()" /\ last.fn # NoFunc

PipeUnwrapped == last.op = "pipe()" /\ last.fn = NoFunc

\* C7: p(f) on a value pipe invokes f exactly once, with the wrapped value as
\* its only argument, within that call, whether or not the pipe is unwrapped
\* later.
C7_PipeAppliesAtOnce ==
  PipeApplied
    => last.calls = <<[fn |-> last.fn, args |-> <<Piped(last.target)>>]>>

C7_Witness ==
  /\ PipeApplied
  /\ last.fn = "dbl"
  /\ origin[last.target].fn = "inc"
  /\ last.calls = <<[fn |-> "dbl", args |-> <<Num(3)>>]>>
  /\ objs[last.ret].value = Num(6)

\* C8: p() on a value pipe returns the wrapped value and invokes nothing:
\* pipe(v)() is v, and pipe(v)(f1)...(fn)() is fn(...f1(v)...).
C8_PipeUnwrap ==
  PipeUnwrapped
    => /\ ~last.thrown
       /\ last.ret = 0
       /\ last.calls = <<>>
       /\ last.value = Piped(last.target)

C8_Witness ==
  /\ PipeUnwrapped
  /\ origin[last.target].fn = "dbl"
  /\ origin[origin[last.target].target].fn = "inc"
  /\ origin[origin[origin[last.target].target].target].args = <<Num(2)>>
  /\ last.value = Num(6)

\* C9: builders are fork-safe: each builder reached by additions, and each
\* function finalized from it, holds the stages of the builder it was made
\* from plus only the function it was made with, and keeps holding exactly
\* those whatever is later built from the same ancestors.
C9_ForkSafe ==
  \A o \in 1..Len(objs) :
    objs[o].kind # "pipe" => Stages(o) = Chain(o)

\* C10: if a stage throws during a call of a finalized function, the call
\* throws that exception, every earlier stage was invoked exactly once and no
\* later one is; on a value pipe the exception leaves the call that supplied
\* the function and no pipe is made.
C10_ThrowStopsTheRun ==
  /\ (ExecCalled /\ last.thrown)
       => \E k \in 1..Len(Chain(last.target)) :
            /\ Len(last.calls) = k
            /\ \A i \in 1..k :
                 /\ last.calls[i].fn = Chain(last.target)[i]
                 /\ FedByPrevious(i)
            /\ Invoke(last.calls[k].fn, last.calls[k].args)
                 = [thrown |-> TRUE, value |-> last.value]
  /\ (PipeApplied /\ Invoke(last.fn, <<Piped(last.target)>>).thrown)
       => /\ last.thrown
          /\ last.value = Invoke(last.fn, <<Piped(last.target)>>).value
          /\ last.ret = 0

\* ------------------------------------------- forward and reverse, side by side
\* The functions a reverse builder takes as single-input stages.
SingleInput == {f \in Funcs : length(f) <= 1}

RECURSIVE SeqsOfLen(_, _)
SeqsOfLen(S, n) ==
  IF n = 0 THEN {<<>>}
  ELSE {Append(q, x) : q \in SeqsOfLen(S, n - 1), x \in S}

StageLists == UNION {SeqsOfLen(SingleInput, n) : n \in 1..MaxStages}

\* A client script's state: the heap, the origins, and the latest call.
Script(arr, obs, org, lst) ==
  [arrays |-> arr, objs |-> obs, origin |-> org, last |-> lst]

NoCall ==
  [op |-> "none", target |-> 0, fn |-> NoFunc, args |-> <<>>, ret |-> 0,
   thrown |-> FALSE, value |-> Undefined, calls |-> <<>>]

\* The script state after one more call, with outcome o, that returns a
\* closure.
Then(sc, call, o) ==
  Script(o.arrays, o.objs, Append(sc.origin, call),
         [op |-> call.op, target |-> call.target, fn |-> call.fn,
          args |-> call.args, ret |-> o.ret, thrown |-> o.thrown,
          value |-> o.value, calls |-> o.calls])

ThenForward(sc, func) ==
  Then(sc, Call("fwd()", sc.last.ret, func, <<>>),
       pipelineBuilderCall(HeapOf(sc.arrays, sc.objs),
                           sc.objs[sc.last.ret].pipeline, func))

ThenReverse(sc, func) ==
  Then(sc, Call("rev()", sc.last.ret, func, <<>>),
       reversePipelineBuilderCall(HeapOf(sc.arrays, sc.objs),
                                  sc.objs[sc.last.ret].pipeline, func))

\* ...(fs[i])...(fs[n])() on the forward builder the script just got.
RECURSIVE ForwardFrom(_, _, _)
ForwardFrom(sc, fs, i) ==
  IF i > Len(fs) THEN ThenForward(sc, NoFunc)
  ELSE ForwardFrom(ThenForward(sc, fs[i]), fs, i + 1)

\* ...(fs[i])...(fs[1])() on the reverse builder the script just got.
RECURSIVE ReverseFrom(_, _, _)
ReverseFrom(sc, fs, i) ==
  IF i < 1 THEN ThenReverse(sc, NoFunc)
  ELSE ReverseFrom(ThenReverse(sc, fs[i]), fs, i - 1)

\* pipeline(f1)(f2)...(fn)()
BuildForward(sc, fs) ==
  ForwardFrom(Then(sc, Call("pipeline", 0, fs[1], <<>>),
                   pipelineBuilder(HeapOf(sc.arrays, sc.objs), fs[1], 0)),
              fs, 2)

\* reversePipeline(fn)...(f2)(f1)()
BuildReverse(sc, fs) ==
  ReverseFrom(Then(sc, Call("reversePipeline", 0, fs[Len(fs)], <<>>),
                   reversePipelineBuilder(HeapOf(sc.arrays, sc.objs),
                                          fs[Len(fs)], 0)),
              fs, Len(fs) - 1)

\* The client has built and finalized both pipelines from the same
\* functions; from then on it calls the two finalized functions.
InitEq ==
  \E fs \in StageLists :
    LET sc == BuildReverse(BuildForward(Script(<<>>, <<>>, <<>>, NoCall), fs),
                           fs)
    IN /\ arrays = sc.arrays
       /\ objs = sc.objs
       /\ origin = sc.origin
       /\ last = sc.last

NextEq == CallExec

SpecEq == InitEq /\ [][NextEq]_vars

\* The finalized function of the other pipeline built from the same stages.
Twin(e) ==
  CHOOSE t \in OfKind("exec") : Family(t) # Family(e) /\ Chain(t) = Chain(e)

\* C11: pipeline(f1)(f2)...(fn)() and reversePipeline(fn)...(f2)(f1)(), for
\* single-input f1..fn, give the same result on every input and invoke the
\* functions in the same order f1, f2, ..., fn.
C11_ForwardEqualsReverse ==
  ExecCalled
    => LET twin == exec(Heap, objs[Twin(last.target)].pipeline, last.args)
       IN /\ twin.thrown = last.thrown
          /\ twin.value = last.value
          /\ twin.calls = last.calls
          /\ Len(last.calls) <= Len(Chain(last.target))
          /\ ~last.thrown => Len(last.calls) = Len(Chain(last.target))
          /\ \A i \in 1..Len(last.calls) :
               last.calls[i].fn = Chain(last.target)[i]

C11_Witness ==
  /\ ExecCalled
  /\ Family(last.target) = "rev"
  /\ Family(Twin(last.target)) = "fwd"
  /\ Chain(last.target) = <<"inc", "dbl", "inc">>
  /\ last.args = <<Num(2)>>
  /\ last.value = Num(7)
  /\ exec(Heap, objs[Twin(last.target)].pipeline, last.args).value = Num(7)

\* C12: value pipes are persistent: after p = pipe(v)(f), the calls p(g) and
\* p(h), made any number of times and in any order, return pipes wrapping
\* g(f(v)) and h(f(v)); they invoke g, respectively h, and never f again, and
\* p goes on wrapping f(v).
C12_PipesArePersistent ==
  /\ \A p \in OfKind("pipe") : objs[p].value = Piped(p)
  /\ PipeApplied
       => /\ Len(last.calls) = 1
          /\ last.calls[1].fn = last.fn
          /\ last.ret # 0 => objs[last.ret].value = Piped(last.ret)

C12_Witness ==
  /\ PipeUnwrapped
  /\ origin[last.target].fn = "inc"
  /\ last.value = Num(2)
  /\ \E g, k \in OfKind("pipe") :
       /\ g < k
       /\ origin[g] = Call("pipe()", last.target, "dbl", <<>>)
       /\ origin[k] = Call("pipe()", last.target, "inc", <<>>)
       /\ objs[g].value = Num(4)
       /\ objs[k].value = Num(3)

\* The last call finalized a builder.
Finalized ==
  /\ last.op \in {"fwd()", "rev()", "term()"}
  /\ last.ret # 0
  /\ objs[last.ret].kind = "exec"

\* C13: finalizing never changes a builder.  No call changes a closure or a
\* stage array that exists; a finalized function holds the stages its
\* builder holds at that point; and each of its calls, however many and
\* whatever was built in between, applies exactly those stages.
C13_FinalizeChangesNothing ==
  [][/\ \A o \in 1..Len(objs) : objs'[o] = objs[o]
     /\ \A a \in 1..Len(arrays) : arrays'[a] = arrays[a]
     /\ Finalized'
          => /\ arrays' = arrays
             /\ Stages(last.ret)' = Stages(last.target)'
     /\ ExecCalled'
          => /\ arrays' = arrays
             /\ objs' = objs
             /\ Stages(last.target)' = Stages(origin[last.target].target)'
             /\ ExecRunsHeldStages']_vars

C13_Witness ==
  /\ ExecCalled
  /\ objs[origin[last.target].target].kind = "fwd"
  /\ Len(last.calls) = 1
  /\ \E e, b \in 1..Len(objs) :
       /\ last.target < b
       /\ b < e
       /\ origin[b] = Call("fwd()", origin[last.target].target, "dbl", <<>>)
       /\ origin[e] = Call("fwd()", origin[last.target].target, NoFunc, <<>>)

\* ------------------------------------------ the closure implementation
\* pipeline and reversePipeline before release 1.2.0 keep no array: a builder
\* captures one function a, either a function the client gave or an arrow
\* function composed of two.
Given(f) == <<"given", f>>

\* (...x) => outer(inner(...x))
Composite(outer, inner) == <<"composite", outer, inner>>

\* a(...args) for such a function: the result, and the client functions
\* invoked on the way, in order.
RECURSIVE oldInvoke(_, _)
oldInvoke(a, args) ==
  IF a[1] = "given"
  THEN LET r == Invoke(a[2], args)
       IN [thrown |-> r.thrown, value |-> r.value,
           calls |-> <<[fn |-> a[2], args |-> args]>>]
  ELSE LET in == oldInvoke(a[3], args)
       IN IF in.thrown THEN in
          ELSE LET out == oldInvoke(a[2], <<in.value>>)
               IN [thrown |-> out.thrown, value |-> out.value,
                   calls |-> in.calls \o out.calls]

OldClosure(kind, a) == [kind |-> kind, a |-> a]

\* pipeline(a)
oldPipeline(a) == OldClosure("fwd", a)

\* The closure pipeline returns, called with b (or with nothing).
oldPipelineCall(a, b) ==
  IF b = NoFunc THEN OldClosure("exec", a)
  ELSE oldPipeline(Composite(Given(b), a))

\* reversePipeline(a)
oldReversePipeline(a) == OldClosure("rev", a)

\* The closure reversePipeline returns, called with b (or with nothing).
oldReversePipelineCall(a, b) ==
  IF b = NoFunc THEN OldClosure("exec", a)
  ELSE IF length(b) > 1 THEN OldClosure("term", Composite(a, Given(b)))
  ELSE oldReversePipeline(Composite(a, Given(b)))

\* The terminal builder () => (...x) => a(b(...x)), called.
oldTerminalCall(a, b) == OldClosure("exec", a)

\* What the closure implementation returns for the calls that led to
\* closure o.
RECURSIVE OldOf(_)
OldOf(o) ==
  LET c == origin[o]
  IN IF c.target = 0
     THEN IF c.op = "pipeline" THEN oldPipeline(Given(c.fn))
          ELSE oldReversePipeline(Given(c.fn))
     ELSE LET b == OldOf(c.target)
          IN CASE b.kind = "fwd" -> oldPipelineCall(b.a, c.fn)
               [] b.kind = "rev" -> oldReversePipelineCall(b.a, c.fn)
               [] OTHER -> oldTerminalCall(b.a, c.fn)

\* C14: the array-and-reduce implementation behaves as the closure
\* implementation did: after the same builder calls, the finalized functions
\* of the two, given the same arguments, invoke the same stages in the same
\* order with the same arguments and return the same result.
C14_RefactorPreservesBehaviour ==
  ExecCalled
    => LET old == oldInvoke(OldOf(last.target).a, last.args)
       IN /\ old.thrown = last.thrown
          /\ old.value = last.value
          /\ old.calls = last.calls

\* The closures a reverse builder returned when called with a function.
ReverseAdditions ==
  {o \in 1..Len(objs) :
     /\ origin[o].target # 0
     /\ origin[o].fn # NoFunc
     /\ objs[origin[o].target].kind = "rev"}

\* C15: a reverse builder goes by the declared parameter count alone: a
\* function declaring zero or one parameter is prepended as the new first
\* stage and the builder returned can be extended again; only a function
\* declaring more than one parameter makes the chain terminal.
C15_ClassifiedByParameterCount ==
  \A o \in ReverseAdditions :
    IF length(origin[o].fn) > 1
    THEN objs[o].kind = "term"
    ELSE /\ objs[o].kind = "rev"
         /\ Stages(o) = <<origin[o].fn>> \o Stages(origin[o].target)

C15_Witness ==
  \E o, d \in ReverseAdditions :
    /\ origin[o].fn = "someNumber"
    /\ objs[o].kind = "rev"
    /\ origin[d] = Call("rev()", o, "inc", <<>>)
    /\ Stages(d) = <<"inc", "someNumber", "dbl">>
    /\ ExecCalled
    /\ origin[last.target].target = d
    /\ last.value = Num(84)

====
